---- MODULE Spec2Model ----
(***************************************************************************)
(* Verification model of the SIMD kernels of zlib.wasm:                    *)
(*   zlib_simd_optimized.c   (chunkmemset, adler32, crc32, longest match)  *)
(*   zlib_simd_compression.c (match finder, bit packer)                    *)
(*   wasm_module_side.c      (size-dispatching exports)                    *)
(* Every kernel has its own specification (SpecChunk, SpecAdler, ...);     *)
(* the variables of the other kernels stay at their idle values.           *)
(* TLC integers are 32-bit signed, so a uint32_t value that can exceed     *)
(* 2^31-1 is kept as its two 16-bit halves and a uint64_t as its bits.     *)
(***************************************************************************)
EXTENDS Integers, Sequences, FiniteSets, TLC

VARIABLES
    \* zlib_chunkmemset_simd: linear memory and the call's locals
    cm_mem, cm_old, cm_src, cm_dest, cm_dist, cm_len, cm_pc, cm_i, cm_pattern,
    \* zlib_adler32_simd: the input (seed, buffer, a cut of the buffer in two
    \* runs) and the values returned by one call and by two continued calls
    ad_seed, ad_buf, ad_cut, ad_whole, ad_mid, ad_split,
    \* the CRC-32 entry points: the input, whether the build defines
    \* __wasm_simd128__, the entry point called and the value it returned
    crc_seed, crc_buf, crc_build, crc_fn, crc_out,
    \* the match finders: the window bytes, the byte value found outside
    \* the window, the chain table (entries not listed hold 0), the scan
    \* position and the other arguments, the finder called and its result
    mf_window, mf_oob, mf_table, mf_strstart, mf_lookahead, mf_prev_length,
    mf_max_chain, mf_fn, mf_ret,
    \* the number of chain candidates the finder collected
    mf_visited,
    \* simd_bit_stream: bit_buffer (bit i at index i), bit_count, output
    \* (-1: byte never written), output_pos, output_size
    bs_buffer, bs_count, bs_output, bs_pos, bs_size,
    \* history of the stream: the bits the packed codes stand for, in
    \* order; bytes the capacity test discarded; bit_count after the last
    \* flush (-1: none yet); codes that did not fit the free space; whether
    \* every code so far was below 2^length; calls made
    \* what the last call handed back to its caller ("none": no call yet)
    bs_expected, bs_dropped, bs_after_flush, bs_splits, bs_clean, bs_calls,
    bs_ret,
    \* zlib_slide_hash_simd: the hash table and the chain table (index ->
    \* uint16_t entry), their contents before the call, wsize, and whether
    \* the call was made
    sl_hash, sl_prev, sl_hash0, sl_prev0, sl_wsize, sl_done,
    \* the compression entry points: whether the build defines
    \* __wasm_simd128__; the arguments (src: null flag and the bytes as fill
    \* pattern and length; level; whether dest has room for the stream);
    \* the entry point called, its return value, what dest and the
    \* *dest_len cell hold; the result of zlib_decompress_buffer on dest
    cz_build, cz_src, cz_level, cz_room, cz_fn, cz_ret, cz_dest, cz_dest_len,
    cz_back,
    \* simd_preprocess_chunk: state->window_pos, len, the loop counters i
    \* and j, the position in the function, chain_table before the latest
    \* chain update, and the latest update <<pos, hash>>
    pp_wpos, pp_len, pp_i, pp_j, pp_pc, pp_before, pp_last

cmVars == <<cm_mem, cm_old, cm_src, cm_dest, cm_dist, cm_len, cm_pc, cm_i, cm_pattern>>

adVars == <<ad_seed, ad_buf, ad_cut, ad_whole, ad_mid, ad_split>>

crcVars == <<crc_seed, crc_buf, crc_build, crc_fn, crc_out>>

mfVars == <<mf_window, mf_oob, mf_table, mf_strstart, mf_lookahead, mf_prev_length,
           mf_max_chain, mf_fn, mf_ret, mf_visited>>

bsVars == <<bs_buffer, bs_count, bs_output, bs_pos, bs_size,
           bs_expected, bs_dropped, bs_after_flush, bs_splits, bs_clean, bs_calls,
           bs_ret>>

slVars == <<sl_hash, sl_prev, sl_hash0, sl_prev0, sl_wsize, sl_done>>

czVars == <<cz_build, cz_src, cz_level, cz_room, cz_fn, cz_ret, cz_dest, cz_dest_len,
           cz_back>>

ppVars == <<pp_wpos, pp_len, pp_i, pp_j, pp_pc, pp_before, pp_last>>

vars == <<cmVars, adVars, crcVars, mfVars, bsVars, slVars, czVars, ppVars>>

\* what the actions of one kernel leave unchanged
otherThanChunk == <<adVars, crcVars, mfVars, bsVars, slVars, czVars, ppVars>>
otherThanAdler == <<cmVars, crcVars, mfVars, bsVars, slVars, czVars, ppVars>>
otherThanCrc == <<cmVars, adVars, mfVars, bsVars, slVars, czVars, ppVars>>
otherThanMatch == <<cmVars, adVars, crcVars, bsVars, slVars, czVars, ppVars>>
otherThanPack == <<cmVars, adVars, crcVars, mfVars, slVars, czVars, ppVars>>

(***************************************************************************)
(* Bounds of the model                                                     *)
(***************************************************************************)
MaxDist == 17        \* largest back-reference distance tried
MaxFill == 33        \* largest fill length tried
NumTemplates == 3    \* number of memory / buffer fill patterns tried
MaxAdlerLen == 130   \* longest checksummed buffer (two 64-byte blocks and a tail)
MaxCrcLen == 515     \* longest CRC buffer (two 256-byte chunks and a remainder)
WinMem == 320        \* bytes of window memory
MaxChainArg == 9     \* largest max_chain_length tried
MaxCalls == 3        \* simd_pack_bits calls on one stream
SmallOut == 2        \* a small output_size
MaxTable == 33       \* largest hash_size / window_size tried
MaxInputLen == 8193  \* longest input handed to the compression entry points
MaxChunkLen == 33    \* longest data handed to simd_preprocess_chunk

(***************************************************************************)
(* Shared helpers                                                          *)
(***************************************************************************)
VecWidth == 16       \* bytes in a v128_t

Min(a, b) == IF a < b THEN a ELSE b
Max(a, b) == IF a > b THEN a ELSE b

\* Input bytes: a ramp of distinct values, a short period, a constant with
\* the top bit set.
TemplateByte(t, a) ==
    CASE t = 1 -> (a * 7 + 3) % 256
      [] t = 2 -> 200 + (a % 3)
      [] OTHER -> 170

(***************************************************************************)
(* zlib_chunkmemset_simd(dest, src, dist, len)                             *)
(***************************************************************************)
DestBase == MaxDist + MaxFill
MemSize == DestBase + MaxFill + VecWidth

\* (len / 16) * 16
SimdLen(len) == (len \div VecWidth) * VecWidth

\* The switch on dist: splat of the 1/2/4/8-byte value at src, else a plain
\* 16-byte load from src.
LoadPattern(mem, src, dist) ==
    [k \in 0..(VecWidth - 1) |->
        IF dist \in {1, 2, 4, 8} THEN mem[src + (k % dist)] ELSE mem[src + k]]

\* wasm_v128_store(addr, v)
StoreVec(mem, addr, v) ==
    [a \in DOMAIN mem |->
        IF a >= addr /\ a < addr + VecWidth THEN v[a - addr] ELSE mem[a]]

\* wasm_v128_load(addr)
LoadVec(mem, addr) == [k \in 0..(VecWidth - 1) |-> mem[addr + k]]

ChunkIdle ==
    /\ cm_mem = <<>> /\ cm_old = <<>> /\ cm_src = 0 /\ cm_dest = 0
    /\ cm_dist = 0 /\ cm_len = 0 /\ cm_pc = "idle" /\ cm_i = 0
    /\ cm_pattern = <<>>

\* A call either with a separate pattern buffer (dest far from src) or as an
\* in-place LZ77 back-reference (src = dest - dist).
ChunkInit ==
    \E d \in 1..MaxDist, n \in 1..MaxFill, inplace \in BOOLEAN, t \in 1..NumTemplates :
        /\ cm_mem = [a \in 0..(MemSize - 1) |-> TemplateByte(t, a)]
        /\ cm_old = cm_mem
        /\ cm_src = 0
        /\ cm_dest = IF inplace THEN d ELSE DestBase
        /\ cm_dist = d
        /\ cm_len = n
        /\ cm_pc = "entry"
        /\ cm_i = 0
        /\ cm_pattern = <<>>

CmEntry ==
    /\ cm_pc = "entry"
    /\ IF cm_dist < 16
       THEN /\ cm_pattern' = LoadPattern(cm_mem, cm_src, cm_dist)
            /\ cm_pc' = "small"
       ELSE /\ cm_pattern' = cm_pattern
            /\ cm_pc' = "large"
    /\ cm_i' = 0
    /\ UNCHANGED <<cm_mem, cm_old, cm_src, cm_dest, cm_dist, cm_len, otherThanChunk>>

\* for (i = 0; i < simd_len; i += 16) wasm_v128_store(dest + i, pattern);
CmSmallStore ==
    /\ cm_pc = "small"
    /\ cm_i < SimdLen(cm_len)
    /\ cm_mem' = StoreVec(cm_mem, cm_dest + cm_i, cm_pattern)
    /\ cm_i' = cm_i + VecWidth
    /\ UNCHANGED <<cm_old, cm_src, cm_dest, cm_dist, cm_len, cm_pc, cm_pattern, otherThanChunk>>

\* for (i = simd_len; i < len; i++) dest[i] = src[i % dist];
CmSmallTail ==
    /\ cm_pc = "small"
    /\ cm_i >= SimdLen(cm_len)
    /\ cm_i < cm_len
    /\ cm_mem' = [cm_mem EXCEPT ![cm_dest + cm_i] = cm_mem[cm_src + (cm_i % cm_dist)]]
    /\ cm_i' = cm_i + 1
    /\ UNCHANGED <<cm_old, cm_src, cm_dest, cm_dist, cm_len, cm_pc, cm_pattern, otherThanChunk>>

\* for (i = 0; i < simd_len; i += 16) store(dest + i, load(src + i));
CmLargeCopy ==
    /\ cm_pc = "large"
    /\ cm_i < SimdLen(cm_len)
    /\ cm_mem' = StoreVec(cm_mem, cm_dest + cm_i, LoadVec(cm_mem, cm_src + cm_i))
    /\ cm_i' = cm_i + VecWidth
    /\ UNCHANGED <<cm_old, cm_src, cm_dest, cm_dist, cm_len, cm_pc, cm_pattern, otherThanChunk>>

\* for (i = simd_len; i < len; i++) dest[i] = src[i];
CmLargeTail ==
    /\ cm_pc = "large"
    /\ cm_i >= SimdLen(cm_len)
    /\ cm_i < cm_len
    /\ cm_mem' = [cm_mem EXCEPT ![cm_dest + cm_i] = cm_mem[cm_src + cm_i]]
    /\ cm_i' = cm_i + 1
    /\ UNCHANGED <<cm_old, cm_src, cm_dest, cm_dist, cm_len, cm_pc, cm_pattern, otherThanChunk>>

CmReturn ==
    /\ cm_pc \in {"small", "large"}
    /\ cm_i >= cm_len
    /\ cm_pc' = "done"
    /\ UNCHANGED <<cm_mem, cm_old, cm_src, cm_dest, cm_dist, cm_len, cm_i, cm_pattern, otherThanChunk>>

ChunkNext ==
    \/ CmEntry
    \/ CmSmallStore
    \/ CmSmallTail
    \/ CmLargeCopy
    \/ CmLargeTail
    \/ CmReturn

CmDisjoint == cm_dest = DestBase
CmInPlace == cm_dest = cm_src + cm_dist

\* C1: with a pattern buffer that does not overlap dest, after the call
\* dest[i] = src[i mod dist] for every i in [0, len), for every dist >= 1.
C1_ReplicateDisjoint ==
    (cm_pc = "done" /\ CmDisjoint) =>
        \A i \in 0..(cm_len - 1) :
            cm_mem[cm_dest + i] = cm_old[cm_src + (i % cm_dist)]

\* C2: as an in-place back-reference (src = dest - dist) the len bytes at
\* dest are the periodic repetition of the dist bytes that preceded dest.
C2_ReplicateInPlace ==
    (cm_pc = "done" /\ CmInPlace) =>
        \A i \in 0..(cm_len - 1) :
            cm_mem[cm_dest + i] = cm_old[cm_src + (i % cm_dist)]

(***************************************************************************)
(* zlib_adler32_simd(adler, buf, len)                                      *)
(* A checksum value is the pair <<s2, s1>> of its 16-bit halves, i.e. the  *)
(* 32-bit value (s2 << 16) | s1.                                           *)
(***************************************************************************)
BASE == 65521        \* largest prime below 65536
AdlerChunk == 64     \* chunk_size
AdlerNone == <<>>

\* x mod 2^32 mod m for -2^31 < x < 2^31: a negative int converted to
\* uint32_t is x + 2^32, and 2^32 mod m = ((2^16 mod m)^2) mod m.
U32Mod(x, m) ==
    IF x >= 0 THEN x % m
    ELSE (x + (((65536 % m) * (65536 % m)) % m)) % m

\* One byte of Adler-32: s1 += byte; s2 += s1, both modulo BASE.
AdlerStep(acc, b) ==
    LET n1 == (acc[2] + b) % BASE
    IN <<(acc[1] + n1) % BASE, n1>>

\* The bytes buf[from..to] folded in order (split in halves to keep the
\* evaluation shallow).
RECURSIVE AdlerRange(_, _, _, _)
AdlerRange(acc, buf, from, to) ==
    IF from > to \/ acc[1] < 0 THEN acc
    ELSE IF from = to THEN AdlerStep(acc, buf[from])
    ELSE LET mid == (from + to) \div 2
         IN AdlerRange(AdlerRange(acc, buf, from, mid), buf, mid + 1, to)

\* adler32() of zlib for a seed whose halves are below BASE.
adler32(adler, buf, from, to) == AdlerRange(adler, buf, from, to)

\* wasm_i32x4_extend_low_i16x8(wasm_i16x8_extend_low_i8x16(v)): the signed
\* widening of the low 4 bytes of a vector.
SignExt8(b) == IF b >= 128 THEN b - 256 ELSE b

\* lane k of bytes0..bytes3 for the block that starts at buf[at]
WideLane(buf, at, c, k) == SignExt8(buf[at + VecWidth * c + k])

\* taps[c], lane k
Tap(c, k) == 16 - 4 * c - k

RECURSIVE SumLanes(_, _, _, _)
SumLanes(buf, at, j, weighted) ==
    IF j = 16 THEN 0
    ELSE LET c == j \div 4
             k == j % 4
             w == IF weighted THEN Tap(c, k) ELSE 1
         IN WideLane(buf, at, c, k) * w + SumLanes(buf, at, j + 1, weighted)

\* s1_sum and s2_sum: horizontal sums of s1_acc and s2_acc
S1Sum(buf, at) == SumLanes(buf, at, 0, FALSE)
S2Sum(buf, at) == SumLanes(buf, at, 0, TRUE)

\* the 64-byte loop: for (i = 0; i < simd_end; i += chunk_size)
RECURSIVE AdlerBlocks(_, _, _, _, _)
AdlerBlocks(s2, s1, buf, at, simdEnd) ==
    IF at > simdEnd THEN <<s2, s1>>
    ELSE AdlerBlocks(U32Mod(s2 + S2Sum(buf, at), BASE),
                     U32Mod(s1 + S1Sum(buf, at), BASE),
                     buf, at + AdlerChunk, simdEnd)

\* zlib_adler32_simd over buf[from..to] (1-based, inclusive)
zlib_adler32_simd(adler, buf, from, to) ==
    LET len == to - from + 1
        simdEnd == (len \div AdlerChunk) * AdlerChunk
        blocks == AdlerBlocks(adler[1], adler[2], buf, from, from + simdEnd - 1)
    IN IF len < 64 THEN adler32(adler, buf, from, to)
       ELSE IF simdEnd < len THEN adler32(blocks, buf, from + simdEnd, to)
       ELSE blocks

AdlerLens == {0, 1, 63, 64, 65, 70, 128, MaxAdlerLen}
AdlerSeeds == {<<0, 1>>, <<4660, 65520>>}
AdlerCuts(n) == {0, 1, 10, 63, 64, 66, n} \cap (0..n)

AdlerIdle ==
    /\ ad_seed = <<0, 1>> /\ ad_buf = <<>> /\ ad_cut = 0
    /\ ad_whole = AdlerNone /\ ad_mid = AdlerNone /\ ad_split = AdlerNone

AdlerInit ==
    \E s \in AdlerSeeds, n \in AdlerLens, t \in 1..NumTemplates :
      \E c \in AdlerCuts(n) :
        /\ ad_seed = s
        /\ ad_buf = [a \in 1..n |-> TemplateByte(t, a)]
        /\ ad_cut = c
        /\ ad_whole = AdlerNone
        /\ ad_mid = AdlerNone
        /\ ad_split = AdlerNone

\* one call over the whole buffer
AdWhole ==
    /\ ad_whole = AdlerNone
    /\ ad_whole' = zlib_adler32_simd(ad_seed, ad_buf, 1, Len(ad_buf))
    /\ UNCHANGED <<ad_seed, ad_buf, ad_cut, ad_mid, ad_split, otherThanAdler>>

\* a call over the first run A = buf[1..cut]
AdFirst ==
    /\ ad_mid = AdlerNone
    /\ ad_mid' = zlib_adler32_simd(ad_seed, ad_buf, 1, ad_cut)
    /\ UNCHANGED <<ad_seed, ad_buf, ad_cut, ad_whole, ad_split, otherThanAdler>>

\* the continuing call over B = buf[cut+1..len], seeded with the first result
AdSecond ==
    /\ ad_mid # AdlerNone
    /\ ad_split = AdlerNone
    /\ ad_split' = zlib_adler32_simd(ad_mid, ad_buf, ad_cut + 1, Len(ad_buf))
    /\ UNCHANGED <<ad_seed, ad_buf, ad_cut, ad_whole, ad_mid, otherThanAdler>>

AdlerNext ==
    \/ AdWhole
    \/ AdFirst
    \/ AdSecond

\* C3: for every seed and buffer, also of 64 bytes or more,
\* zlib_adler32_simd returns the scalar Adler-32 of the buffer.
C3_AdlerSimdIsScalar ==
    ad_whole # AdlerNone =>
        ad_whole = adler32(ad_seed, ad_buf, 1, Len(ad_buf))

\* C4: continuing over B from the checksum of A gives the checksum of A
\* followed by B, for every cut of the buffer.
C4_AdlerContinuable ==
    (ad_whole # AdlerNone /\ ad_split # AdlerNone) => ad_split = ad_whole

(***************************************************************************)
(* CRC-32: zlib_crc32_simd_enhanced, zlib_crc32_simd_optimized and         *)
(* zlib_crc32_simd over zlib's crc32().  A CRC value is the pair           *)
(* <<high 16 bits, low 16 bits>>.                                          *)
(***************************************************************************)
RECURSIVE Xor(_, _)
Xor(a, b) ==
    IF a = 0 THEN b
    ELSE IF b = 0 THEN a
    ELSE ((a + b) % 2) + 2 * Xor(a \div 2, b \div 2)

Xor32(x, y) == <<Xor(x[1], y[1]), Xor(x[2], y[2])>>
Not32(x) == <<65535 - x[1], 65535 - x[2]>>
Shr32(x, k) == <<x[1] \div (2 ^ k), (x[1] % (2 ^ k)) * (2 ^ (16 - k)) + x[2] \div (2 ^ k)>>

\* The reflected IEEE 802.3 polynomial 0xEDB88320.
CrcPoly == <<60856, 33568>>

RECURSIVE CrcBits(_, _)
CrcBits(c, n) ==
    IF n = 0 THEN c
    ELSE CrcBits(IF c[2] % 2 = 1 THEN Xor32(Shr32(c, 1), CrcPoly) ELSE Shr32(c, 1),
                 n - 1)

CrcTable == [b \in 0..255 |-> CrcBits(<<0, b>>, 8)]

CrcByte(c, b) == Xor32(CrcTable[Xor(c[2] % 256, b)], Shr32(c, 8))

\* The bytes buf[from..to] folded in order (split in halves to keep the
\* evaluation shallow).
RECURSIVE CrcRange(_, _, _, _)
CrcRange(c, buf, from, to) ==
    IF from > to \/ c[1] < 0 THEN c
    ELSE IF from = to THEN CrcByte(c, buf[from])
    ELSE LET mid == (from + to) \div 2
         IN CrcRange(CrcRange(c, buf, from, mid), buf, mid + 1, to)

\* crc32(crc, buf, len) of zlib over the len bytes that follow buf[at]
\* (at is 0-based, buf is a 1-based sequence)
crc32(crc, buf, at, len) == Not32(CrcRange(Not32(crc), buf, at + 1, at + len))

CrcChunk == 256      \* chunk_size

\* while (processed + chunk_size <= len) { current_crc = crc32(...); ... }
RECURSIVE CrcChunkLoop(_, _, _, _)
CrcChunkLoop(current, data, processed, len) ==
    IF processed + CrcChunk <= len
    THEN CrcChunkLoop(crc32(current, data, processed, CrcChunk), data,
                      processed + CrcChunk, len)
    ELSE <<current, processed>>

\* A slip in the remainder call: it continues from the caller's seed.
zlib_crc32_simd_enhanced_Reseeded(crc, data, len) ==
    LET after == CrcChunkLoop(crc, data, 0, len)
    IN IF after[2] < len
       THEN crc32(crc, data, after[2], len - after[2])
       ELSE after[1]

zlib_crc32_simd_enhanced(crc, data, len) ==
    LET after == CrcChunkLoop(crc, data, 0, len)
    IN IF after[2] < len
       THEN crc32(after[1], data, after[2], len - after[2])
       ELSE after[1]

zlib_crc32_simd_optimized(crc, data, len) == zlib_crc32_simd_enhanced(crc, data, len)

\* simdBuild: __wasm_simd128__ is defined
zlib_crc32_simd(simdBuild, crc, buf, len) ==
    IF simdBuild /\ len >= 64
    THEN zlib_crc32_simd_optimized(crc, buf, len)
    ELSE crc32(crc, buf, 0, len)

CrcLens == {0, 1, 63, 64, 255, 256, 257, 512, MaxCrcLen}
CrcSeeds == {<<0, 0>>, <<65535, 65535>>, <<52212, 14630>>}
CrcNone == <<>>

CrcIdle ==
    /\ crc_seed = <<0, 0>> /\ crc_buf = <<>> /\ crc_build = FALSE
    /\ crc_fn = "none" /\ crc_out = CrcNone

CrcInit ==
    \E s \in CrcSeeds, n \in CrcLens, t \in 1..NumTemplates, b \in BOOLEAN :
        /\ crc_seed = s
        /\ crc_buf = [a \in 1..n |-> TemplateByte(t, a)]
        /\ crc_build = b
        /\ crc_fn = "none"
        /\ crc_out = CrcNone

CrcCallEnhanced ==
    /\ crc_fn = "none"
    /\ crc_fn' = "zlib_crc32_simd_enhanced"
    /\ crc_out' = zlib_crc32_simd_enhanced(crc_seed, crc_buf, Len(crc_buf))
    /\ UNCHANGED <<crc_seed, crc_buf, crc_build, otherThanCrc>>

CrcCallOptimized ==
    /\ crc_fn = "none"
    /\ crc_fn' = "zlib_crc32_simd_optimized"
    /\ crc_out' = zlib_crc32_simd_optimized(crc_seed, crc_buf, Len(crc_buf))
    /\ UNCHANGED <<crc_seed, crc_buf, crc_build, otherThanCrc>>

CrcCallSimd ==
    /\ crc_fn = "none"
    /\ crc_fn' = "zlib_crc32_simd"
    /\ crc_out' = zlib_crc32_simd(crc_build, crc_seed, crc_buf, Len(crc_buf))
    /\ UNCHANGED <<crc_seed, crc_buf, crc_build, otherThanCrc>>

CrcNext ==
    \/ CrcCallEnhanced
    \/ CrcCallOptimized
    \/ CrcCallSimd

\* C5: chunking and size dispatch never change the CRC-32: each entry point
\* returns what one crc32() call over the whole buffer returns.
C5_CrcChunkingInvisible ==
    crc_fn # "none" => crc_out = crc32(crc_seed, crc_buf, 0, Len(crc_buf))

\* a call that ran two full chunks and a remainder through the SIMD dispatch
C5_Witness ==
    /\ crc_fn = "zlib_crc32_simd"
    /\ crc_build
    /\ Len(crc_buf) > 2 * CrcChunk
    /\ Len(crc_buf) % CrcChunk # 0
    /\ crc_out = crc32(crc_seed, crc_buf, 0, Len(crc_buf))

\* crc32(0, "123456789") = 0xCBF43926
CrcKnownVector ==
    crc32(<<0, 0>>, <<49, 50, 51, 52, 53, 54, 55, 56, 57>>, 0, 9) = <<52212, 14630>>


(***************************************************************************)
(* The match finders: zlib_longest_match_simd (zlib_simd_optimized.c) and  *)
(* simd_find_longest_match (zlib_simd_compression.c)                       *)
(***************************************************************************)
SIMD_HASH_CHAIN_LENGTH == 256
SIMD_WINDOW_SIZE == 32768
SIMD_LOOKAHEAD_SIZE == 258
SIMD_HASH_MASK == 32767
WMask == 32767       \* wmask of a 32 KiB window
GoodMatch == 4       \* good_match
MaxInt == 2147483647

\* window[i]; a read outside the window memory yields whatever is there
WByte(i) == IF i \in DOMAIN mf_window THEN mf_window[i] ELSE mf_oob

\* *(uint64_t*)(window + at)
Word64(at) == [k \in 0..7 |-> WByte(at + k)]

\* table[i] of a uint16_t table
TableAt(i) == IF i \in DOMAIN mf_table THEN mf_table[i] ELSE 0

\* a - b in uint32_t; a wrapped difference (a - b + 2^32) exceeds every
\* value it is compared with and is kept as MaxInt
U32Sub(a, b) == IF a >= b THEN a - b ELSE MaxInt

\* first i in [0, 16) whose mask bit is clear
FirstMismatch(a, b) ==
    CHOOSE i \in 0..(VecWidth - 1) :
        /\ WByte(a + i) # WByte(b + i)
        /\ \A j \in 0..(i - 1) : WByte(a + j) = WByte(b + j)

ChunkEqual(a, b) == \A i \in 0..(VecWidth - 1) : WByte(a + i) = WByte(b + i)

\* while (len < 256 && src0[len] == src1[len]) len++;
RECURSIVE Compare256Tail(_, _, _)
Compare256Tail(src0, src1, len) ==
    IF len < 256 /\ WByte(src0 + len) = WByte(src1 + len)
    THEN Compare256Tail(src0, src1, len + 1)
    ELSE len

\* while (len + 16 <= 256) { ... }
RECURSIVE Compare256Loop(_, _, _)
Compare256Loop(src0, src1, len) ==
    IF len + 16 <= 256
    THEN IF ChunkEqual(src0 + len, src1 + len)
         THEN Compare256Loop(src0, src1, len + 16)
         ELSE len + FirstMismatch(src0 + len, src1 + len)
    ELSE Compare256Tail(src0, src1, len)

zlib_compare256_simd(src0, src1) == Compare256Loop(src0, src1, 0)

\* The candidate test of the 4-candidate batch.  st holds best_len,
\* match_start (-1: not written), scan_end and whether break was taken.
LmBatchCandidate(st, match_pos) ==
    IF /\ Word64(match_pos) = Word64(mf_strstart)
       /\ Word64(match_pos + st.best_len - 7) = st.scan_end
    THEN LET match_len == Min(zlib_compare256_simd(mf_strstart, match_pos), mf_lookahead)
         IN IF match_len > st.best_len
            THEN [best_len |-> match_len,
                  match_start |-> match_pos,
                  scan_end |-> IF match_len < mf_lookahead
                               THEN Word64(mf_strstart + match_len - 7)
                               ELSE st.scan_end,
                  brk |-> match_len >= 258]
            ELSE st
    ELSE st

\* for (i = 0; i < 4; i++) { ... if (best_len >= 258) break; }
RECURSIVE LmBatch(_, _, _)
LmBatch(st, cands, i) ==
    IF i > Len(cands) \/ st.brk THEN [st EXCEPT !.brk = FALSE]
    ELSE LmBatch(LmBatchCandidate(st, cands[i]), cands, i + 1)

\* The candidate test of the trailing loop: no scan_end update, no break.
LmRestCandidate(st, match_pos) ==
    IF /\ Word64(match_pos) = Word64(mf_strstart)
       /\ Word64(match_pos + st.best_len - 7) = st.scan_end
    THEN LET match_len == Min(zlib_compare256_simd(mf_strstart, match_pos), mf_lookahead)
         IN IF match_len > st.best_len
            THEN [st EXCEPT !.best_len = match_len, !.match_start = match_pos]
            ELSE st
    ELSE st

RECURSIVE LmRest(_, _, _)
LmRest(st, cands, i) ==
    IF i > Len(cands) THEN st
    ELSE LmRest(LmRestCandidate(st, cands[i]), cands, i + 1)

\* while (chain_length-- && cur_match > limit) { ... }
RECURSIVE LmWalk(_, _, _, _, _)
LmWalk(st, chain_length, cur_match, cands, limit) ==
    IF st.best_len >= 0 /\ chain_length # 0 /\ cur_match > limit
    THEN LET collected == Append(cands, cur_match)
             full == Len(collected) = 4
         IN LmWalk(IF full THEN LmBatch(st, collected, 1) ELSE st,
                   chain_length - 1,
                   TableAt(cur_match % (WMask + 1)),
                   IF full THEN <<>> ELSE collected,
                   limit)
    ELSE <<st, cands>>

zlib_longest_match_simd ==
    LET best_len == IF mf_prev_length > 3 THEN mf_prev_length ELSE 3
        chain_length == IF best_len >= GoodMatch
                        THEN mf_max_chain \div 4 ELSE mf_max_chain
        limit == IF mf_strstart > 32768 THEN mf_strstart - 32768 ELSE 0
        st0 == [best_len |-> best_len, match_start |-> -1,
                scan_end |-> Word64(mf_strstart + best_len - 7), brk |-> FALSE]
        walked == LmWalk(st0, chain_length, TableAt(mf_strstart % (WMask + 1)),
                         <<>>, limit)
        st == LmRest(walked[1], walked[2], 1)
    IN [len |-> st.best_len, start |-> st.match_start]

\* The budget without the quartering at good_match.
LmBudget_NotQuartered == mf_max_chain

\* the chain_length zlib_longest_match_simd starts with
LmBudget ==
    IF Max(mf_prev_length, 3) >= GoodMatch THEN mf_max_chain \div 4 ELSE mf_max_chain

\* the candidates the chain walk of zlib_longest_match_simd collects, in
\* chain order: while (chain_length-- && cur_match > limit)
RECURSIVE LmChain(_, _)
LmChain(cur_match, chain_length) ==
    IF chain_length # 0
       /\ cur_match > (IF mf_strstart > 32768 THEN mf_strstart - 32768 ELSE 0)
    THEN <<cur_match>> \o LmChain(TableAt(cur_match % (WMask + 1)), chain_length - 1)
    ELSE <<>>

\* simd_string_match(str1, str2, max_len)
RECURSIVE StringMatchTail(_, _, _, _)
StringMatchTail(str1, str2, len, max_len) ==
    IF len < max_len /\ WByte(str1 + len) = WByte(str2 + len)
    THEN StringMatchTail(str1, str2, len + 1, max_len)
    ELSE len

RECURSIVE StringMatchLoop(_, _, _, _)
StringMatchLoop(str1, str2, i, max_len) ==
    IF i < (max_len \div 16) * 16
    THEN IF ChunkEqual(str1 + i, str2 + i)
         THEN StringMatchLoop(str1, str2, i + 16, max_len)
         ELSE i + FirstMismatch(str1 + i, str2 + i)
    ELSE StringMatchTail(str1, str2, i, max_len)

simd_string_match(str1, str2, max_len) ==
    IF max_len < 16 THEN StringMatchTail(str1, str2, 0, max_len)
    ELSE StringMatchLoop(str1, str2, 0, max_len)

\* ((current[0] << 16) | (current[1] << 8) | current[2]) & SIMD_HASH_MASK
FindHash(pos) ==
    IF pos + 2 < SIMD_WINDOW_SIZE
    THEN ((WByte(pos + 1) % 128) * 256 + WByte(pos + 2)) % (SIMD_HASH_MASK + 1)
    ELSE 0

\* One candidate; quick is TRUE in the batch of 4, which tests current[0]
\* and current[2] first.  st holds best_match_len and best_dist.
SfCandidate(st, pos, candidate_pos, max_match_len, quick) ==
    LET distance == U32Sub(pos, candidate_pos)
    IN IF /\ distance > 0 /\ distance <= SIMD_WINDOW_SIZE
          /\ (quick => /\ WByte(pos) = WByte(candidate_pos)
                       /\ WByte(pos + 2) = WByte(candidate_pos + 2))
       THEN LET match_len == simd_string_match(pos, candidate_pos,
                                               Min(max_match_len, mf_lookahead))
            IN IF match_len > st.len
               THEN [len |-> match_len, dist |-> distance]
               ELSE st
       ELSE st

RECURSIVE SfCandidates(_, _, _, _, _, _)
SfCandidates(st, pos, cands, i, max_match_len, quick) ==
    IF i > Len(cands) THEN st
    ELSE SfCandidates(SfCandidate(st, pos, cands[i], max_match_len, quick),
                      pos, cands, i + 1, max_match_len, quick)

\* One test of the while condition and, if it holds, one pass through the
\* loop body.  w holds the locals: st (best_match_len, best_dist),
\* chain_pos, chain_count, candidates, done once the loop was left, and
\* visited, the number of candidates collected so far.
\* while (chain_pos != 0 && chain_count < 256 && pos - chain_pos <= 32768)
SfStep(w, pos, max_match_len) ==
    IF w.done THEN w
    ELSE IF /\ w.chain_pos # 0
            /\ w.chain_count < SIMD_HASH_CHAIN_LENGTH
            /\ U32Sub(pos, w.chain_pos) <= SIMD_WINDOW_SIZE
    THEN LET collected == Append(w.cands, w.chain_pos)
             full == Len(collected) = 4
             st2 == IF full
                    THEN SfCandidates(w.st, pos, collected, 1, max_match_len, TRUE)
                    ELSE w.st
             rest == IF full THEN <<>> ELSE collected
         IN IF w.chain_pos < SIMD_WINDOW_SIZE
            THEN [st |-> st2, chain_pos |-> TableAt(w.chain_pos),
                  chain_count |-> w.chain_count + 1, cands |-> rest,
                  done |-> FALSE, visited |-> w.visited + 1]
            ELSE [w EXCEPT !.st = st2, !.cands = rest, !.done = TRUE,
                           !.visited = w.visited + 1]
    ELSE [w EXCEPT !.done = TRUE]

\* n tests of the loop condition in order (split in halves to keep the
\* evaluation shallow)
RECURSIVE SfIterate(_, _, _, _)
SfIterate(w, n, pos, max_match_len) ==
    IF w.done \/ n = 0 THEN w
    ELSE IF n = 1 THEN SfStep(w, pos, max_match_len)
    ELSE SfIterate(SfIterate(w, n \div 2, pos, max_match_len),
                   n - (n \div 2), pos, max_match_len)

\* the whole loop: chain_count < 256 lets the body run at most 256 times
SfWalk(st, pos, chain_pos, max_match_len) ==
    SfIterate([st |-> st, chain_pos |-> chain_pos, chain_count |-> 0,
               cands |-> <<>>, done |-> FALSE, visited |-> 0],
              SIMD_HASH_CHAIN_LENGTH + 1, pos, max_match_len)

simd_find_longest_match(pos, max_match_len) ==
    IF mf_lookahead < 3 THEN [len |-> 0, dist |-> -1]
    ELSE LET walked == SfWalk([len |-> 0, dist |-> 0], pos, TableAt(FindHash(pos)),
                              max_match_len)
         IN SfCandidates(walked.st, pos, walked.cands, 1, max_match_len, FALSE)

\* the candidates simd_find_longest_match collected when it returns
SfVisited(pos, max_match_len) ==
    IF mf_lookahead < 3 THEN 0
    ELSE SfWalk([len |-> 0, dist |-> 0], pos, TableAt(FindHash(pos)),
                max_match_len).visited

\* Window contents around scan position s: a run of one byte; a 5-periodic
\* text broken 2 bytes, 9 bytes, or 5 bytes after s; bytes that never repeat.
MatchByte(t, s, i) ==
    CASE t = 1 -> 97
      [] t = 2 -> IF i = s + 2 THEN 35 ELSE 97 + (i % 5)
      [] t = 3 -> IF i = s + 9 THEN 35 ELSE 97 + (i % 5)
      [] t = 4 -> IF i = s + 5 THEN 35 ELSE 97 + (i % 5)
      [] OTHER -> TemplateByte(1, i)

ScanPositions == {3, 12}
Candidates(s) == {s - 5, s - 8} \cap (1..s)
Lookaheads == {2, 5, 300}
PrevLengths == {0, 4}
ChainBudgets == {0, 1, MaxChainArg}
\* values of a byte read before the start of the window (only a scan
\* position below 4 makes the finders read there)
OutsideBytes == {0, 97}

MatchIdle ==
    /\ mf_window = <<>> /\ mf_oob = 0 /\ mf_table = <<>> /\ mf_strstart = 0
    /\ mf_lookahead = 0 /\ mf_prev_length = 0 /\ mf_max_chain = 0
    /\ mf_fn = "none" /\ mf_ret = <<>> /\ mf_visited = 0

\* The chain table holds arbitrary (also stale) entries: links to earlier
\* positions, to the scan position itself and to a later position.
MatchInit ==
    \E t \in 1..(NumTemplates + 1), s \in ScanPositions, la \in Lookaheads,
       pl \in PrevLengths, mc \in ChainBudgets,
       oob \in OutsideBytes :
      LET w == [i \in 0..(WinMem - 1) |-> MatchByte(t, s, i)]
          h == ((w[s + 1] % 128) * 256 + w[s + 2]) % (SIMD_HASH_MASK + 1)
          keys == {s, h} \cup ({s - 5} \cap (1..s))
          vals == {0, s, s + 1} \cup Candidates(s)
      IN \E tbl \in [keys -> vals] :
            /\ (oob # 0 => s < 4)
            /\ mf_window = w
            /\ mf_oob = oob
            /\ mf_table = tbl
            /\ mf_strstart = s
            /\ mf_lookahead = la
            /\ mf_prev_length = pl
            /\ mf_max_chain = mc
            /\ mf_fn = "none"
            /\ mf_ret = <<>>
            /\ mf_visited = 0

CallLongestMatch ==
    /\ mf_fn = "none"
    /\ mf_fn' = "zlib_longest_match_simd"
    /\ mf_ret' = zlib_longest_match_simd
    /\ mf_visited' = Len(LmChain(TableAt(mf_strstart % (WMask + 1)), LmBudget))
    /\ UNCHANGED <<mf_window, mf_oob, mf_table, mf_strstart, mf_lookahead,
                   mf_prev_length, mf_max_chain, otherThanMatch>>

CallFindLongestMatch ==
    /\ mf_fn = "none"
    /\ mf_fn' = "simd_find_longest_match"
    /\ mf_ret' = simd_find_longest_match(mf_strstart, SIMD_LOOKAHEAD_SIZE)
    /\ mf_visited' = SfVisited(mf_strstart, SIMD_LOOKAHEAD_SIZE)
    /\ UNCHANGED <<mf_window, mf_oob, mf_table, mf_strstart, mf_lookahead,
                   mf_prev_length, mf_max_chain, otherThanMatch>>

MatchNext ==
    \/ CallLongestMatch
    \/ CallFindLongestMatch

\* a match was reported: zlib_longest_match_simd wrote *match_start,
\* simd_find_longest_match returned a length other than 0
LmReported == mf_fn = "zlib_longest_match_simd" /\ mf_ret.start # -1
SfReported == mf_fn = "simd_find_longest_match" /\ mf_ret.len # 0

\* C6: a reported length satisfies 3 <= length <= min(258, lookahead); a
\* length of 1 or 2 is never reported, and lookahead < 3 reports no match.
C6_MatchLengthBounds ==
    /\ (LmReported \/ SfReported) =>
          /\ mf_ret.len >= 3
          /\ mf_ret.len <= Min(258, mf_lookahead)
    /\ mf_lookahead < 3 => ~(LmReported \/ SfReported)

\* C7: a reported match at scan position p starts at m with
\* 1 <= p - m <= 32768 and p - m <= p, whatever the chain table holds.
C7_MatchDistanceBounds ==
    /\ LmReported =>
          /\ mf_strstart - mf_ret.start >= 1
          /\ mf_strstart - mf_ret.start <= 32768
          /\ mf_strstart - mf_ret.start <= mf_strstart
    /\ SfReported =>
          /\ mf_ret.dist >= 1
          /\ mf_ret.dist <= 32768
          /\ mf_ret.dist <= mf_strstart

\* the window holds one byte value from position 0 to 300 bytes past the
\* scan position, and the head of the chain is a position of the run at
\* which the 8-byte screens read inside the window
LmRunOf300 ==
    /\ \A i \in 0..(mf_strstart + 299) : i \in DOMAIN mf_window /\ mf_window[i] = mf_window[0]
    /\ TableAt(mf_strstart % (WMask + 1)) \in 4..(mf_strstart - 1)
    /\ LmBudget >= 1

\* C14: on a run of at least 300 copies of one byte, with lookahead >= 258
\* and a chain candidate inside the run, zlib_longest_match_simd reports the
\* DEFLATE cap 258, not a smaller comparison width and not 300.
C14_RunMatchIs258 ==
    (mf_fn = "zlib_longest_match_simd" /\ LmRunOf300 /\ mf_lookahead >= 258)
        => mf_ret.len = 258

\* number of equal bytes at a and b, counted up to cap
RECURSIVE PrefixLen(_, _, _, _)
PrefixLen(a, b, n, cap) ==
    IF n < cap /\ WByte(a + n) = WByte(b + n) THEN PrefixLen(a, b, n + 1, cap) ELSE n

\* min(prefix(scan, c), lookahead, 258)
MatchLenAt(c) == PrefixLen(mf_strstart, c, 0, Min(mf_lookahead, 258))

\* the traversed candidates that lie in the window before the scan position
\* and at which the 8-byte screens read inside the window
LmInWindow ==
    LET chain == LmChain(TableAt(mf_strstart % (WMask + 1)), LmBudget)
    IN {chain[k] : k \in 1..Len(chain)} \cap (4..(mf_strstart - 1))

\* C17: if a traversed in-window candidate has a common prefix of length
\* L = min(prefix, lookahead, 258) above the baseline max(prev_length, 2),
\* zlib_longest_match_simd returns the largest such L and a candidate that
\* achieves it (matches of length 3 to 7 included).
C17_BestTraversedMatch ==
    (mf_fn = "zlib_longest_match_simd" /\ mf_strstart >= 4) =>
        LET base == Max(mf_prev_length, 2)
            good == {c \in LmInWindow : MatchLenAt(c) > base}
        IN good # {} =>
              /\ \A c \in good : mf_ret.len >= MatchLenAt(c)
              /\ mf_ret.start \in good
              /\ mf_ret.len = MatchLenAt(mf_ret.start)

\* The candidates of zlib_longest_match_simd evaluated one at a time in
\* chain order with the rule of its trailing loop (the rule every chain of
\* fewer than 4 candidates gets).
LmOneAtATime ==
    LET best_len == IF mf_prev_length > 3 THEN mf_prev_length ELSE 3
        st == LmRest([best_len |-> best_len, match_start |-> -1,
                      scan_end |-> Word64(mf_strstart + best_len - 7), brk |-> FALSE],
                     LmChain(TableAt(mf_strstart % (WMask + 1)), LmBudget), 1)
    IN [len |-> st.best_len, start |-> st.match_start]

\* One test of the loop condition of simd_find_longest_match and, if it
\* holds, the evaluation of that one candidate with the rule of the trailing
\* loop.
SfOneStep(w, pos, max_match_len) ==
    IF w.done THEN w
    ELSE IF /\ w.chain_pos # 0
            /\ w.chain_count < SIMD_HASH_CHAIN_LENGTH
            /\ U32Sub(pos, w.chain_pos) <= SIMD_WINDOW_SIZE
    THEN LET st2 == SfCandidate(w.st, pos, w.chain_pos, max_match_len, FALSE)
         IN IF w.chain_pos < SIMD_WINDOW_SIZE
            THEN [st |-> st2, chain_pos |-> TableAt(w.chain_pos),
                  chain_count |-> w.chain_count + 1, cands |-> <<>>,
                  done |-> FALSE]
            ELSE [w EXCEPT !.st = st2, !.done = TRUE]
    ELSE [w EXCEPT !.done = TRUE]

RECURSIVE SfOneIterate(_, _, _, _)
SfOneIterate(w, n, pos, max_match_len) ==
    IF w.done \/ n = 0 THEN w
    ELSE IF n = 1 THEN SfOneStep(w, pos, max_match_len)
    ELSE SfOneIterate(SfOneIterate(w, n \div 2, pos, max_match_len),
                      n - (n \div 2), pos, max_match_len)

SfOneAtATime(pos, max_match_len) ==
    IF mf_lookahead < 3 THEN [len |-> 0, dist |-> -1]
    ELSE SfOneIterate([st |-> [len |-> 0, dist |-> 0],
                       chain_pos |-> TableAt(FindHash(pos)), chain_count |-> 0,
                       cands |-> <<>>, done |-> FALSE],
                      SIMD_HASH_CHAIN_LENGTH + 1, pos, max_match_len).st

\* C18: batching does not change the result: what either finder returns
\* for a chain of n candidates is what evaluating the n candidates one at
\* a time in chain order returns, whatever n mod 4 is.
C18_BatchingInvisible ==
    /\ mf_fn = "zlib_longest_match_simd" => mf_ret = LmOneAtATime
    /\ mf_fn = "simd_find_longest_match" =>
          mf_ret = SfOneAtATime(mf_strstart, SIMD_LOOKAHEAD_SIZE)

\* C21: a search evaluates a bounded number of candidates whatever the
\* chain table holds (cycles, self-references): zlib_longest_match_simd
\* collects at most max_chain_length candidates, at most
\* max_chain_length / 4 when prev_length reaches good_match and none when
\* the budget is 0; simd_find_longest_match collects at most 256.
C21_SearchIsBounded ==
    /\ mf_fn = "zlib_longest_match_simd" =>
          /\ mf_visited <= mf_max_chain
          /\ (mf_prev_length >= GoodMatch => mf_visited <= mf_max_chain \div 4)
          /\ (mf_max_chain = 0 => mf_visited = 0)
    /\ mf_fn = "simd_find_longest_match" => mf_visited <= SIMD_HASH_CHAIN_LENGTH

\* a search over a chain that loops on itself used its whole budget
C21_Witness ==
    /\ mf_fn = "simd_find_longest_match"
    /\ mf_visited = SIMD_HASH_CHAIN_LENGTH
    /\ \E c \in DOMAIN mf_table : mf_table[c] = c

\* Indices of window[] that zlib_longest_match_simd reads on entry
\* (scan_start, scan_end) and while it evaluates the first candidate of the
\* chain: the two 8-byte screens and, if they pass, the 16-byte chunks of
\* zlib_compare256_simd up to the chunk with the first mismatch.  Later
\* candidates add further reads.
LmReads ==
    LET s == mf_strstart
        best_len == IF mf_prev_length > 3 THEN mf_prev_length ELSE 3
        limit == IF s > 32768 THEN s - 32768 ELSE 0
        c == TableAt(s % (WMask + 1))
        measured == Min(256, 16 * ((zlib_compare256_simd(s, c) \div 16) + 1))
    IN (s..(s + 7)) \cup ((s + best_len - 7)..(s + best_len))
       \cup (IF LmBudget # 0 /\ c > limit
             THEN (c..(c + 7))
                  \cup (IF Word64(c) = Word64(s)
                        THEN ((c + best_len - 7)..(c + best_len))
                             \cup (IF Word64(c + best_len - 7) = Word64(s + best_len - 7)
                                   THEN (s..(s + measured - 1)) \cup (c..(c + measured - 1))
                                   ELSE {})
                        ELSE {})
             ELSE {})

\* C22: for every scan position (also below 4), prev_length and lookahead,
\* every byte zlib_longest_match_simd and zlib_compare256_simd read lies in
\* the window at an index in [0, strstart + lookahead).
C22_ReadsInsideWindow ==
    mf_fn = "zlib_longest_match_simd" =>
        \A i \in LmReads : i >= 0 /\ i < mf_strstart + mf_lookahead


(***************************************************************************)
(* simd_pack_bits(stream, codes, lengths, count)                           *)
(* Codes are below 2^31 here; bit 31 of a code is 0.                       *)
(***************************************************************************)
AccBits == 64        \* width of bit_buffer
PackChunk == 4       \* chunk_size

\* bit k of a uint32_t code
CodeBit(code, k) == IF k >= 31 THEN 0 ELSE (code \div (2 ^ k)) % 2

\* code >> k
CodeShr(code, k) == IF k >= 31 THEN 0 ELSE code \div (2 ^ k)

\* buffer | ((uint64_t)code << sh), 0 <= sh < 64
OrShifted(buffer, code, sh) ==
    [i \in 0..(AccBits - 1) |->
        IF i >= sh /\ i - sh < 32 /\ CodeBit(code, i - sh) = 1 THEN 1 ELSE buffer[i]]

\* (uint8_t)(bit_buffer & 0xFF)
LowByte(buffer) ==
    buffer[0] + 2 * buffer[1] + 4 * buffer[2] + 8 * buffer[3] + 16 * buffer[4]
    + 32 * buffer[5] + 64 * buffer[6] + 128 * buffer[7]

\* bit_buffer >>= 8
ShrByte(buffer) ==
    [i \in 0..(AccBits - 1) |-> IF i + 8 < AccBits THEN buffer[i + 8] ELSE 0]

\* A flush that forgets the capacity test.
FlushByte_Unchecked(s) ==
    [s EXCEPT !.output = [i \in DOMAIN s.output |->
                              IF i = s.pos THEN LowByte(s.buffer) ELSE s.output[i]],
              !.pos = s.pos + 1,
              !.buffer = ShrByte(s.buffer),
              !.count = s.count - 8]

\* one pass of: while (bit_count >= 8) { if (output_pos < output_size)
\*   output[output_pos++] = low byte; bit_buffer >>= 8; bit_count -= 8; }
FlushByte(s) ==
    IF s.pos < s.size
    THEN [s EXCEPT !.output = [i \in DOMAIN s.output |->
                                   IF i = s.pos THEN LowByte(s.buffer) ELSE s.output[i]],
                   !.pos = s.pos + 1,
                   !.buffer = ShrByte(s.buffer),
                   !.count = s.count - 8]
    ELSE [s EXCEPT !.buffer = ShrByte(s.buffer),
                   !.count = s.count - 8,
                   !.dropped = s.dropped + 1]

RECURSIVE Flush(_)
Flush(s) ==
    IF s.count >= 8 THEN Flush(FlushByte(s))
    ELSE [s EXCEPT !.after_flush = s.count]

\* while (length > 0) { ... } for one code.  A shift of a 64-bit value by
\* 64 (bit_count = 64) is undefined: shl64 is what the build makes of it,
\* the code shifted by 64 mod 64, or 0.
RECURSIVE PackCode(_, _, _, _)
PackCode(s, code, length, shl64) ==
    IF length <= 0 \/ s.count < 0 THEN s
    ELSE LET available_bits == AccBits - s.count
             ored == IF s.count < AccBits
                     THEN OrShifted(s.buffer, code, s.count)
                     ELSE IF shl64 = "wraps" THEN OrShifted(s.buffer, code, 0)
                     ELSE s.buffer
         IN IF length <= available_bits
            THEN [s EXCEPT !.buffer = ored, !.count = s.count + length]
            ELSE PackCode(Flush([s EXCEPT !.buffer = ored,
                                          !.splits = s.splits + 1]),
                          CodeShr(code, available_bits),
                          length - available_bits, shl64)

\* for (j = 0; j < process_count; j++) over codes_array and lengths[i + j]
RECURSIVE PackLanes(_, _, _, _, _, _)
PackLanes(s, codes, lengths, i, j, shl64) ==
    IF j >= Min(PackChunk, Len(codes) - i) THEN s
    ELSE PackLanes(PackCode(s, codes[i + j + 1], lengths[i + j + 1], shl64),
                   codes, lengths, i, j + 1, shl64)

\* for (i = 0; i < count; i += chunk_size)
RECURSIVE PackChunks(_, _, _, _, _)
PackChunks(s, codes, lengths, i, shl64) ==
    IF i >= Len(codes) THEN s
    ELSE PackChunks(PackLanes(s, codes, lengths, i, 0, shl64),
                    codes, lengths, i + PackChunk, shl64)

simd_pack_bits(s, codes, lengths, shl64) == PackChunks(s, codes, lengths, 0, shl64)

\* static void simd_pack_bits(...): the caller is handed no value, and
\* simd_bit_stream has no field that records a failure
PackBitsResult == "void"

\* the low length bits of code, least significant first
CodeBits(code, length) == [k \in 1..length |-> CodeBit(code, k - 1)]

RECURSIVE ExpectedBits(_, _, _)
ExpectedBits(codes, lengths, i) ==
    IF i > Len(codes) THEN <<>>
    ELSE CodeBits(codes[i], lengths[i]) \o ExpectedBits(codes, lengths, i + 1)

CleanCodes(codes, lengths) ==
    \A i \in 1..Len(codes) : CodeShr(codes[i], lengths[i]) = 0

Repeat(x, n) == [i \in 1..n |-> x]

PackCodes == {5, 1073741823}
PackLengths == {0, 3, 30, 32}
\* the (codes, lengths) arguments tried: every single code, and runs of
\* five equal codes (one full batch of 4 and a remainder)
PackInputs ==
    {<<<<c>>, <<l>>>> : c \in PackCodes, l \in PackLengths}
    \cup {<<Repeat(5, 5), Repeat(3, 5)>>, <<Repeat(1073741823, 5), Repeat(30, 5)>>}

AmpleOut == (MaxCalls * 5 * 32) \div 8 + 1
OutMem == AmpleOut + 8

PackIdle ==
    /\ bs_buffer = <<>> /\ bs_count = 0 /\ bs_output = <<>> /\ bs_pos = 0
    /\ bs_size = 0 /\ bs_expected = <<>> /\ bs_dropped = 0
    /\ bs_after_flush = -1 /\ bs_splits = 0 /\ bs_clean = TRUE /\ bs_calls = 0
    /\ bs_ret = "none"

\* a fresh stream over an output buffer of output_size bytes
PackInit ==
    \E size \in {0, SmallOut, AmpleOut} :
        /\ bs_buffer = [i \in 0..(AccBits - 1) |-> 0]
        /\ bs_count = 0
        /\ bs_output = [i \in 0..(OutMem - 1) |-> -1]
        /\ bs_pos = 0
        /\ bs_size = size
        /\ bs_expected = <<>>
        /\ bs_dropped = 0
        /\ bs_after_flush = -1
        /\ bs_splits = 0
        /\ bs_clean = TRUE
        /\ bs_calls = 0
        /\ bs_ret = "none"

PackBits ==
    /\ bs_calls < MaxCalls
    /\ \E in \in PackInputs, shl64 \in {"wraps", "zero"} :
         LET s == simd_pack_bits(
                    [buffer |-> bs_buffer, count |-> bs_count, output |-> bs_output,
                     pos |-> bs_pos, size |-> bs_size, dropped |-> bs_dropped,
                     after_flush |-> bs_after_flush, splits |-> bs_splits],
                    in[1], in[2], shl64)
         IN /\ bs_buffer' = s.buffer
            /\ bs_count' = s.count
            /\ bs_output' = s.output
            /\ bs_pos' = s.pos
            /\ bs_size' = s.size
            /\ bs_dropped' = s.dropped
            /\ bs_after_flush' = s.after_flush
            /\ bs_splits' = s.splits
            /\ bs_expected' = bs_expected \o ExpectedBits(in[1], in[2], 1)
            /\ bs_clean' = (bs_clean /\ CleanCodes(in[1], in[2]))
    /\ bs_calls' = bs_calls + 1
    /\ bs_ret' = PackBitsResult
    /\ UNCHANGED otherThanPack

PackNext ==
    \/ PackBits

\* the bits of a byte, least significant first
ByteBits(b) == [k \in 1..8 |-> (b \div (2 ^ (k - 1))) % 2]

RECURSIVE EmittedBits(_)
EmittedBits(n) ==
    IF n = 0 THEN <<>> ELSE EmittedBits(n - 1) \o ByteBits(bs_output[n - 1])

\* the stream so far: the bytes emitted, then the bit_count buffered bits
StreamBits == EmittedBits(bs_pos) \o [k \in 1..bs_count |-> bs_buffer[k - 1]]

\* C8: with enough output space, the emitted bytes followed by the
\* buffered bits are the LSB-first concatenation of the low length bits of
\* every code packed, in order.
C8_StreamIsConcatenation ==
    bs_dropped = 0 => StreamBits = bs_expected

\* C9: once a code did not fit the free space of the accumulator and was
\* split across a flush, the stream still holds every bit exactly once and
\* bit_count counts every buffered bit (codes below 2^length, enough space).
C9_SplitLosesNothing ==
    (bs_splits > 0 /\ bs_clean /\ bs_dropped = 0) =>
        /\ StreamBits = bs_expected
        /\ bs_count = Len(bs_expected) - 8 * bs_pos

\* C10: output_pos <= output_size, no byte at an index >= output_size is
\* ever written, a flush removes whole bytes only and leaves fewer than 64
\* valid bits buffered.
C10_PackStaysInBounds ==
    /\ bs_pos <= bs_size
    /\ \A i \in DOMAIN bs_output : i >= bs_size => bs_output[i] = -1
    /\ \A i \in DOMAIN bs_output : bs_output[i] \in (-1)..255
    /\ bs_after_flush < 64

\* a flush happened on a full output buffer, and bytes were discarded
C10_Witness ==
    /\ bs_after_flush >= 0
    /\ bs_size = SmallOut
    /\ bs_pos = bs_size
    /\ bs_dropped > 0

\* C11: when a byte had to be emitted while output_pos had reached
\* output_size, the caller is handed an InsufficientOutputSpace error; the
\* byte is not discarded without a report.
C11_FullOutputReported ==
    bs_dropped > 0 => bs_ret = "InsufficientOutputSpace"


(***************************************************************************)
(* zlib_slide_hash_simd(hash_table, prev_table, hash_size, window_size,    *)
(*                      wsize)                                             *)
(* A table of n entries is a function on 0..n-1.                           *)
(***************************************************************************)
\* A wrapping uint16_t subtraction in place of the saturating one.
SubSat_Wrapping(v, w) == (v - w + 65536) % 65536

\* one lane of wasm_u16x8_sub_sat
SubSat(v, w) == IF v > w THEN v - w ELSE 0

\* while (entries >= 16) { slide table[0..15]; table -= 16; entries -= 16; }
\* with table = base + entries - 16: the 16 entries below index entries
RECURSIVE SlideLoop(_, _, _)
SlideLoop(tbl, entries, w) ==
    IF entries >= 16
    THEN SlideLoop([i \in DOMAIN tbl |->
                       IF i >= entries - 16 /\ i < entries
                       THEN SubSat(tbl[i], w) ELSE tbl[i]],
                   entries - 16, w)
    ELSE tbl

\* the tables after the call: <<hash_table, prev_table>>
zlib_slide_hash_simd(hash_table, prev_table, hash_size, window_size, wsize) ==
    <<SlideLoop(hash_table, hash_size, wsize),
      SlideLoop(prev_table, window_size, wsize)>>

\* Table contents: positions spread over the uint16_t range, positions
\* that do not exceed 8, positions near 65535.
SlideEntry(t, i) ==
    CASE t = 1 -> (i * 2111 + 7) % 65536
      [] t = 2 -> (i * 5) % 9
      [] OTHER -> 65535 - i

SlideIdle ==
    /\ sl_hash = <<>> /\ sl_prev = <<>> /\ sl_hash0 = <<>> /\ sl_prev0 = <<>>
    /\ sl_wsize = 0 /\ sl_done = FALSE

SlideInit ==
    \E hs \in {0, 5, 16, 20, 32, MaxTable}, ws \in {0, 15, 16, 17, MaxTable},
       t \in 1..NumTemplates, w \in {0, 8, 32768, 65535} :
        /\ sl_hash = [i \in 0..(hs - 1) |-> SlideEntry(t, i)]
        /\ sl_prev = [i \in 0..(ws - 1) |-> SlideEntry(t, i + 1)]
        /\ sl_hash0 = sl_hash
        /\ sl_prev0 = sl_prev
        /\ sl_wsize = w
        /\ sl_done = FALSE

CallSlide ==
    /\ ~sl_done
    /\ LET r == zlib_slide_hash_simd(sl_hash, sl_prev, Cardinality(DOMAIN sl_hash),
                                     Cardinality(DOMAIN sl_prev), sl_wsize)
       IN sl_hash' = r[1] /\ sl_prev' = r[2]
    /\ sl_done' = TRUE
    /\ UNCHANGED <<sl_hash0, sl_prev0, sl_wsize, cmVars, adVars, crcVars, mfVars, bsVars, czVars, ppVars>>

SlideNext ==
    \/ CallSlide

\* C12: after the call every entry of both tables holds
\* max(old value - wsize, 0), for every table size; no entry is left
\* unslid and none is larger than it was.
C12_EveryEntrySlid ==
    sl_done =>
        /\ \A i \in DOMAIN sl_hash : sl_hash[i] = Max(sl_hash0[i] - sl_wsize, 0)
        /\ \A i \in DOMAIN sl_prev : sl_prev[i] = Max(sl_prev0[i] - sl_wsize, 0)

\* no stored position exceeds the slide amount wsize
SlBelowWindow ==
    /\ \A i \in DOMAIN sl_hash0 : sl_hash0[i] <= sl_wsize
    /\ \A i \in DOMAIN sl_prev0 : sl_prev0[i] <= sl_wsize

Untouched == [framing |-> "none", t |-> 0, len |-> 0]
Partial == [framing |-> "cut", t |-> 0, len |-> 0]

\* deflateInit2(level, Z_DEFLATED, windowBits, ...) + deflate(Z_FINISH):
\* windowBits 15 frames the stream with the zlib header and Adler-32
\* trailer, windowBits -15 emits raw deflate data
EngineDeflate(src, level, windowBits, room) ==
    IF level < -1 \/ level > 9
    THEN [ret |-> "Z_STREAM_ERROR", dest |-> Untouched]
    ELSE IF ~room
    THEN [ret |-> "Z_OK", dest |-> Partial]
    ELSE [ret |-> "Z_STREAM_END",
          dest |-> [framing |-> IF windowBits < 0 THEN "raw" ELSE "zlib",
                    t |-> src.t, len |-> src.len]]

\* compress2(dest, destLen, source, sourceLen, level)
compress2(src, level, room) ==
    LET d == EngineDeflate(src, level, 15, room)
    IN IF d.ret = "Z_STREAM_END"
       THEN [ret |-> "Z_OK", dest |-> d.dest, dest_len |-> "total_out"]
       ELSE [ret |-> IF d.ret = "Z_OK" THEN "Z_BUF_ERROR" ELSE d.ret,
             dest |-> d.dest, dest_len |-> "unspecified"]

\* uncompress(dest, destLen, source, sourceLen): inflate with windowBits 15
uncompress(stream) ==
    IF stream.framing # "zlib"
    THEN [ret |-> "Z_DATA_ERROR", t |-> 0, len |-> 0]
    ELSE [ret |-> "Z_OK", t |-> stream.t, len |-> stream.len]

zlib_compress_simd_full(src, level, room) ==
    LET d == EngineDeflate(src, level, -15, room)
    IN IF d.ret = "Z_STREAM_ERROR"
       THEN [ret |-> d.ret, dest |-> Untouched, dest_len |-> "capacity"]
       ELSE IF d.ret = "Z_STREAM_END"
       THEN [ret |-> "Z_OK", dest |-> d.dest, dest_len |-> "total_out"]
       ELSE [ret |-> d.ret, dest |-> d.dest, dest_len |-> "capacity"]

zlib_compress_simd(src, level, room) == zlib_compress_simd_full(src, level, room)

\* wasm_module_side.c
zlib_compress_simd_buffer(simdBuild, src, level, room) ==
    IF simdBuild /\ src.len >= 8192
    THEN zlib_compress_simd(src, level, room)
    ELSE compress2(src, level, room)

\* wasm_module_side.c: Z_DEFAULT_COMPRESSION is -1
side_zlib_compress_buffer(src, level, room) ==
    compress2(src, IF level < 0 \/ level > 9 THEN -1 ELSE level, room)

\* wasm_module.c (dest and dest_len are never null here)
main_zlib_compress_buffer(src, level, room) ==
    IF src.null \/ src.len = 0
    THEN [ret |-> "Z_STREAM_ERROR", dest |-> Untouched, dest_len |-> "capacity"]
    ELSE compress2(src, IF level < 0 \/ level > 9 THEN -1 ELSE level, room)

\* wasm_module_side.c
zlib_decompress_buffer(stream) == uncompress(stream)

CompressEntry(fn, simdBuild, src, level, room) ==
    CASE fn = "main.zlib_compress_buffer" -> main_zlib_compress_buffer(src, level, room)
      [] fn = "side.zlib_compress_buffer" -> side_zlib_compress_buffer(src, level, room)
      [] fn = "zlib_compress_simd_buffer" ->
             zlib_compress_simd_buffer(simdBuild, src, level, room)
      [] fn = "zlib_compress_simd" -> zlib_compress_simd(src, level, room)
      [] OTHER -> zlib_compress_simd_full(src, level, room)

EntryPoints ==
    {"main.zlib_compress_buffer", "side.zlib_compress_buffer",
     "zlib_compress_simd_buffer", "zlib_compress_simd", "zlib_compress_simd_full"}

CodecIdle ==
    /\ cz_build = FALSE /\ cz_src = <<>> /\ cz_level = 0 /\ cz_room = FALSE
    /\ cz_fn = "none" /\ cz_ret = "none" /\ cz_dest = Untouched
    /\ cz_dest_len = "capacity" /\ cz_back = <<>>

\* a null src comes with length 0
CodecInit ==
    \E b \in BOOLEAN, n \in BOOLEAN, t \in 1..NumTemplates,
       len \in {0, 1, 10, 8191, 8192, MaxInputLen}, lv \in {6, 12}, room \in BOOLEAN :
        /\ (n => len = 0 /\ t = 1)
        /\ (len = 0 => t = 1)
        /\ cz_build = b
        /\ cz_src = [null |-> n, t |-> t, len |-> len]
        /\ cz_level = lv
        /\ cz_room = room
        /\ cz_fn = "none" /\ cz_ret = "none" /\ cz_dest = Untouched
        /\ cz_dest_len = "capacity" /\ cz_back = <<>>

CallCompress ==
    /\ cz_fn = "none"
    /\ \E fn \in EntryPoints :
         LET r == CompressEntry(fn, cz_build, cz_src, cz_level, cz_room)
         IN /\ cz_fn' = fn
            /\ cz_ret' = r.ret
            /\ cz_dest' = r.dest
            /\ cz_dest_len' = r.dest_len
    /\ UNCHANGED <<cz_build, cz_src, cz_level, cz_room, cz_back,
                   cmVars, adVars, crcVars, mfVars, bsVars, slVars, ppVars>>

\* the caller hands the stream it was given to zlib_decompress_buffer
CallDecompress ==
    /\ cz_fn # "none" /\ cz_ret = "Z_OK" /\ cz_back = <<>>
    /\ cz_back' = zlib_decompress_buffer(cz_dest)
    /\ UNCHANGED <<cz_build, cz_src, cz_level, cz_room, cz_fn, cz_ret, cz_dest,
                   cz_dest_len, cmVars, adVars, crcVars, mfVars, bsVars, slVars, ppVars>>

CodecNext ==
    \/ CallCompress
    \/ CallDecompress

\* C15: what zlib_compress_simd_buffer produces for a non-empty input, of a
\* length below, at or above the dispatch threshold, decodes with
\* zlib_decompress_buffer to exactly the original bytes (dest has room for
\* the whole stream).
C15_SimdBufferRoundTrip ==
    (cz_fn = "zlib_compress_simd_buffer" /\ cz_src.len > 0 /\ cz_room
     /\ cz_ret = "Z_OK" /\ cz_back # <<>>)
        => /\ cz_back.ret = "Z_OK"
           /\ cz_back.t = cz_src.t /\ cz_back.len = cz_src.len

\* C16: every compression entry point called with a 0-byte input or a null
\* buffer returns an InvalidArgument error value and writes neither dest
\* nor the *dest_len cell.
C16_EmptyInputRejected ==
    (cz_fn # "none" /\ (cz_src.null \/ cz_src.len = 0))
        => /\ cz_ret = "Z_STREAM_ERROR"
           /\ cz_dest = Untouched
           /\ cz_dest_len = "capacity"

(***************************************************************************)
(* The hash functions and the chain update of simd_preprocess_chunk.       *)
(* state->window_buffer is mf_window, state->chain_table is mf_table and   *)
(* state->lookahead_size is mf_lookahead; data points at                   *)
(* window_buffer + window_pos.                                             *)
(***************************************************************************)
\* a * b for 16-bit a, b as <<high half, low half>> of the 32-bit product
Mul16(a, b) ==
    LET p1 == a * (b \div 256)
        p0 == a * (b % 256)
        low == (p1 % 256) * 256 + p0
    IN <<(p1 \div 256) + (low \div 65536), low % 65536>>

\* x * y in uint32_t
Mul32(x, y) ==
    LET ll == Mul16(x[2], y[2])
    IN <<(ll[1] + Mul16(x[2], y[1])[2] + Mul16(x[1], y[2])[2]) % 65536, ll[2]>>

\* x + y in uint32_t
Add32(x, y) ==
    <<(x[1] + y[1] + ((x[2] + y[2]) \div 65536)) % 65536, (x[2] + y[2]) % 65536>>

\* wasm_i32x4_shr: the shift of a signed lane copies the sign bit
Sar32(x, k) ==
    LET s == Shr32(x, k)
    IN IF x[1] >= 32768 THEN <<s[1] + (2 ^ k - 1) * (2 ^ (16 - k)), s[2]>> ELSE s

\* key ^= key >> 16; key *= 0x85ebca6b; key ^= key >> 13;
\* key *= 0xc2b2ae35; key ^= key >> 16;
simd_hash_mix(key) ==
    LET k1 == Xor32(key, Shr32(key, 16))
        k2 == Mul32(k1, <<34283, 51819>>)
        k3 == Xor32(k2, Shr32(k2, 13))
        k4 == Mul32(k3, <<49842, 44597>>)
    IN Xor32(k4, Shr32(k4, 16))

\* (data[0] << 24) | (data[1] << 16) | (data[2] << 8) | data[3] at window + at
PackedBytes(at) ==
    <<WByte(at) * 256 + WByte(at + 1), WByte(at + 2) * 256 + WByte(at + 3)>>

\* simd_hash_compute(window + at), zlib_simd_optimized.c
simd_hash_compute(at) ==
    LET b1 == Xor32(PackedBytes(at), Shr32(PackedBytes(at), 16))
        b2 == Mul32(b1, <<34283, 51819>>)
        b3 == Xor32(b2, Shr32(b2, 13))
        b4 == Mul32(b3, <<49842, 44597>>)
    IN Xor32(b4, Shr32(b4, 16))

\* wasm_i32x4_extract_lane(input, n): 4 bytes, least significant first
Lane32(at, n) ==
    <<WByte(at + 4 * n + 3) * 256 + WByte(at + 4 * n + 2),
      WByte(at + 4 * n + 1) * 256 + WByte(at + 4 * n)>>

\* simd_compute_hash_vector(window + at): every chunk is a splat, so the
\* four lanes of the result are equal; this is one of them.
\* prime1 = 0x9E3779B9, prime2 = 0x85EBCA77, prime3 = 0xC2B2AE3D
simd_compute_hash_vector(at) ==
    LET prime1 == <<40503, 31161>>
        prime2 == <<34283, 51831>>
        prime3 == <<49842, 44605>>
        h1 == Mul32(Add32(Lane32(at, 0), prime1), prime2)
        h2 == Mul32(Add32(h1, Lane32(at, 1)), prime3)
        h3 == Mul32(Add32(h2, Lane32(at, 2)), prime2)
        h4 == Add32(h3, Lane32(at, 3))
        h5 == Mul32(Xor32(h4, Sar32(h4, 15)), prime1)
        h6 == Mul32(Xor32(h5, Sar32(h5, 13)), prime2)
    IN Xor32(h6, Sar32(h6, 16))

\* h & SIMD_HASH_MASK
MaskHash(h) == h[2] % (SIMD_HASH_MASK + 1)

\* chain_table[i] = v
TableSet(tbl, i, v) ==
    [k \in DOMAIN tbl \cup {i} |-> IF k = i THEN v ELSE tbl[k]]

TableGet(tbl, i) == IF i \in DOMAIN tbl THEN tbl[i] ELSE 0

\* hash_keys[j] of the chunk at i: i + j + 3 < len holds for every j < 13
\* because the chunk loop runs while i + 15 < len
HashKey(i, j) == MaskHash(simd_hash_mix(PackedBytes(pp_wpos + i + j)))

ChainIdle ==
    /\ pp_wpos = 0 /\ pp_len = 0 /\ pp_i = 0 /\ pp_j = 0 /\ pp_pc = "idle"
    /\ pp_before = <<>> /\ pp_last = <<>>

\* a zeroed chain table; data = window_buffer + window_pos holds len bytes
ChainInit ==
    \E t \in 1..NumTemplates, wpos \in {0, 100, 32760},
       len \in {10, 16, 17, 32, MaxChunkLen} :
        /\ mf_window = [a \in wpos..(wpos + len - 1) |-> TemplateByte(t, a - wpos)]
        /\ mf_oob = 0 /\ mf_table = <<>> /\ mf_strstart = wpos
        /\ mf_lookahead = len /\ mf_prev_length = 0 /\ mf_max_chain = 0
        /\ mf_fn = "none" /\ mf_ret = <<>> /\ mf_visited = 0
        /\ pp_wpos = wpos /\ pp_len = len /\ pp_i = 0 /\ pp_j = 0
        /\ pp_pc = "idle" /\ pp_before = <<>> /\ pp_last = <<>>

\* if (len < 16) return; for (i = 0; i + 15 < len; i += 16)
PpEnter ==
    /\ pp_pc = "idle"
    /\ pp_pc' = IF pp_len < 16 THEN "done" ELSE "update"
    /\ UNCHANGED <<pp_wpos, pp_len, pp_i, pp_j, pp_before, pp_last, mfVars,
                   cmVars, adVars, crcVars, bsVars, slVars, czVars>>

\* one pass of: for (j = 0; j < 13 && i + j < SIMD_WINDOW_SIZE; j++)
PpUpdate ==
    /\ pp_pc = "update"
    /\ pp_j < 13 /\ pp_i + pp_j < SIMD_WINDOW_SIZE
    /\ LET pos == pp_wpos + pp_i + pp_j
           hash == HashKey(pp_i, pp_j)
       IN IF pos < SIMD_WINDOW_SIZE
          THEN /\ mf_table' = TableSet(TableSet(mf_table, pos, TableGet(mf_table, hash)),
                                       hash, pos)
               /\ pp_before' = mf_table
               /\ pp_last' = <<pos, hash>>
          ELSE UNCHANGED <<mf_table, pp_before, pp_last>>
    /\ pp_j' = pp_j + 1
    /\ UNCHANGED <<pp_wpos, pp_len, pp_i, pp_pc, mf_window, mf_oob, mf_strstart,
                   mf_lookahead, mf_prev_length, mf_max_chain, mf_fn, mf_ret, mf_visited,
                   cmVars, adVars, crcVars, bsVars, slVars, czVars>>

\* the update loop ends; i += 16 and the test i + 15 < len
PpNextChunk ==
    /\ pp_pc = "update"
    /\ ~(pp_j < 13 /\ pp_i + pp_j < SIMD_WINDOW_SIZE)
    /\ pp_i' = pp_i + 16
    /\ pp_j' = 0
    /\ pp_pc' = IF pp_i + 16 + 15 < pp_len THEN "update" ELSE "done"
    /\ UNCHANGED <<pp_wpos, pp_len, pp_before, pp_last, mfVars,
                   cmVars, adVars, crcVars, bsVars, slVars, czVars>>

ChainNext ==
    \/ PpEnter
    \/ PpUpdate
    \/ PpNextChunk

\* the head of bucket h and the chain link of position p: both are entries
\* of the one chain_table of simd_deflate_state
HeadOf(tbl, h) == TableGet(tbl, h)
ChainOf(tbl, p) == TableGet(tbl, p)

\* C19: the chain update of position p under hash h makes p the head of
\* bucket h and chain_of(p) the previous head of h, leaves the head of
\* every other bucket and the link of every other position unchanged, and
\* keeps the links leading to strictly older positions.
C19_InsertFrame ==
    pp_last # <<>> =>
        LET p == pp_last[1]
            h == pp_last[2]
            touched == DOMAIN mf_table \cup DOMAIN pp_before
        IN /\ HeadOf(mf_table, h) = p
           /\ ChainOf(mf_table, p) = HeadOf(pp_before, h)
           /\ \A k \in touched : k # h => HeadOf(mf_table, k) = HeadOf(pp_before, k)
           /\ \A k \in touched : k # p => ChainOf(mf_table, k) = ChainOf(pp_before, k)
           /\ \A k \in touched :
                 HeadOf(mf_table, k) # 0 =>
                     ChainOf(mf_table, HeadOf(mf_table, k)) < HeadOf(mf_table, k)

\* C20: every path that derives a hash key from the byte run at a position
\* derives the same key: the key the chain update used (simd_hash_mix), the
\* vector path, simd_hash_compute and the bucket key of
\* simd_find_longest_match agree.
C20_OneHashKey ==
    pp_last # <<>> =>
        LET p == pp_last[1]
            h == pp_last[2]
        IN /\ MaskHash(simd_hash_compute(p)) = h
           /\ MaskHash(simd_compute_hash_vector(p)) = h
           /\ FindHash(p) = h

(***************************************************************************)
(* Specifications: one kernel runs, the others stay idle.                  *)
(***************************************************************************)
InitChunk ==
    ChunkInit /\ AdlerIdle /\ CrcIdle /\ MatchIdle /\ PackIdle /\ SlideIdle /\ CodecIdle /\ ChainIdle
SpecChunk == InitChunk /\ [][ChunkNext]_vars

InitAdler ==
    AdlerInit /\ ChunkIdle /\ CrcIdle /\ MatchIdle /\ PackIdle /\ SlideIdle /\ CodecIdle /\ ChainIdle
SpecAdler == InitAdler /\ [][AdlerNext]_vars

InitCrc ==
    CrcInit /\ ChunkIdle /\ AdlerIdle /\ MatchIdle /\ PackIdle /\ SlideIdle /\ CodecIdle /\ ChainIdle
SpecCrc == InitCrc /\ [][CrcNext]_vars

InitMatch ==
    MatchInit /\ ChunkIdle /\ AdlerIdle /\ CrcIdle /\ PackIdle /\ SlideIdle /\ CodecIdle /\ ChainIdle
SpecMatch == InitMatch /\ [][MatchNext]_vars

InitPack ==
    PackInit /\ ChunkIdle /\ AdlerIdle /\ CrcIdle /\ MatchIdle /\ SlideIdle /\ CodecIdle /\ ChainIdle
SpecPack == InitPack /\ [][PackNext]_vars

InitSlide ==
    SlideInit /\ ChunkIdle /\ AdlerIdle /\ CrcIdle /\ MatchIdle /\ PackIdle /\ CodecIdle /\ ChainIdle
SpecSlide == InitSlide /\ [][SlideNext]_vars

InitCodec ==
    CodecInit /\ ChunkIdle /\ AdlerIdle /\ CrcIdle /\ MatchIdle /\ PackIdle /\ SlideIdle /\ ChainIdle
SpecCodec == InitCodec /\ [][CodecNext]_vars

\* the chain update works on the window and the chain table of the match finder
InitChain ==
    ChainInit /\ ChunkIdle /\ AdlerIdle /\ CrcIdle /\ PackIdle /\ SlideIdle /\ CodecIdle
SpecChain == InitChain /\ [][ChainNext]_vars

====
